---- MODULE Spec2Model ----
(***************************************************************************)
(* plaintextfeeds.py: a feed poller that is run again and again.  Each run *)
(* reads the URL list (~/.plaintextfeeds), merges it with the persisted    *)
(* watermarks (~/.plaintextfeeds.data), polls every enabled feed, rewrites *)
(* the data file and prints the new entries.                               *)
(*                                                                         *)
(* Abstractions.  A text line is represented by its trimmed fields.  A URL *)
(* never contains the separator "last updated" (a URL holds no blank).     *)
(* A point in time is a small integer; instant 1 stands for the dates      *)
(* whose year has fewer than four digits.  A missing data file reads       *)
(* like an empty one (FileNotFoundError is swallowed), so both are <<>>.   *)
(* An Optional value is a sequence: <<>> is None, <<x>> is x.              *)
(***************************************************************************)
EXTENDS Integers, Sequences, FiniteSets

\* ---------------------------------------------------------------- bounds
MaxDate == 2            \* published times are 1..MaxDate
MaxEntries == 3         \* entries in one parsed feed (update_feed alone)
MaxRunEntries == 1      \* entries in one parsed feed (whole runs)
MaxFeedLines == 2       \* lines of the URL list
MaxDataLines == 2       \* lines of a hand-written data file
MaxReportEntries == 2   \* entries in one parsed feed (the report)

\* ------------------------------------------------------------ vocabulary
Urls == {"a", "b"}
Blank == ""
Comment == "# comment"
NoKey == "<absent>"                 \* a key feedparser did not set
NoTitle == "<None>"                 \* Feed.title = None
URL_MISSING == "(URL missing)"
TITLE_MISSING == "(Title missing)"
None == <<>>
Some(x) == <<x>>

Offsets == {0, 1}                   \* UTC offsets a timestamp text can carry

\* datetime: wall-clock reading ts at UTC offset off; aware datetimes
\* compare by the instant they denote.
Datetime(ts, off) == [ts |-> ts, off |-> off]
Instant(dt) == dt.ts - dt.off
Later(d1, d2) == Instant(d1) > Instant(d2)

\* The text after the separator in a line of the data file.
\*   none : the line has no separator        iso4 : YYYY-MM-DDTHH:MM:SS+HHMM
\*   short: the same with a year of fewer than four digits
\*   junk : any other text
NoStamp == [kind |-> "none", ts |-> 0, off |-> 0]
Junk == [kind |-> "junk", ts |-> 0, off |-> 0]

\* The wall-clock reading lies in a year below 1000.
ShortYear(ts) == ts <= 1

\* datetime.strftime(DATE_FORMAT): the C library's %Y prints the year
\* unpadded, so a year below 1000 comes out with fewer than four digits.
Strftime(dt) ==
    [kind |-> IF ShortYear(dt.ts) THEN "short" ELSE "iso4",
     ts |-> dt.ts, off |-> dt.off]

\* datetime.strptime(text, DATE_FORMAT) inside try/except ValueError: %Y
\* takes exactly four digits; anything else raises and leaves None.
Strptime(stamp) ==
    IF stamp.kind = "iso4" THEN Some(Datetime(stamp.ts, stamp.off)) ELSE None

Line(url, stamp) == [url |-> url, stamp |-> stamp]

\* ---------------------------------------------------------------- Feed
Feed(url, enabled) ==
    [url |-> url, title |-> NoTitle, entries |-> <<>>,
     retrieval_failed |-> FALSE, newest_retrieved_date |-> None,
     is_enabled |-> enabled]

Entry(url, title, pub_date) == [url |-> url, title |-> title, pub_date |-> pub_date]

\* dict[Url, Feed] keeps insertion order: a sequence of feeds, one per url.
RECURSIVE IndexOf(_, _, _)
IndexOf(fd, url, k) ==
    IF k > Len(fd) THEN 0
    ELSE IF fd[k].url = url THEN k ELSE IndexOf(fd, url, k + 1)

Has(fd, url) == IndexOf(fd, url, 1) # 0

\* A list instead of a dict: every assignment appends.
PutAgain(fd, feed) == Append(fd, feed)

\* feed_data[url] = feed: replaces in place, or appends a new key.
Put(fd, feed) ==
    IF Has(fd, feed.url)
    THEN [fd EXCEPT ![IndexOf(fd, feed.url, 1)] = feed]
    ELSE Append(fd, feed)

\* ---------------------------------------------------------- get_url_list
RECURSIVE GetUrlList(_)
GetUrlList(lines) ==
    IF lines = <<>> THEN <<>>
    ELSE IF Head(lines) = Blank \/ Head(lines) = Comment
         THEN GetUrlList(Tail(lines))
         ELSE <<Head(lines)>> \o GetUrlList(Tail(lines))

\* --------------------------------------------------------- get_feed_data
RECURSIVE EnableAll(_, _)
EnableAll(fd, urls) ==
    IF urls = <<>> THEN fd
    ELSE EnableAll(Put(fd, Feed(Head(urls), TRUE)), Tail(urls))

LoadLine(fd, line) ==
    IF line.url = Blank THEN fd
    ELSE LET date == IF line.stamp.kind = "none" THEN None
                     ELSE Strptime(line.stamp)
             fd1 == IF Has(fd, line.url) THEN fd
                    ELSE Append(fd, Feed(line.url, FALSE))
             k == IndexOf(fd1, line.url, 1)
         IN [fd1 EXCEPT ![k].newest_retrieved_date = date]

\* The loop of lines 82-104 giving up at the first timestamp field that
\* strptime rejects.
RECURSIVE LoadLinesUntilMalformed(_, _)
LoadLinesUntilMalformed(fd, lines) ==
    IF lines = <<>> THEN fd
    ELSE IF Head(lines).url # Blank /\ Head(lines).stamp.kind \in {"junk", "short"}
         THEN fd
         ELSE LoadLinesUntilMalformed(LoadLine(fd, Head(lines)), Tail(lines))

RECURSIVE LoadLines(_, _)
LoadLines(fd, lines) ==
    IF lines = <<>> THEN fd
    ELSE LoadLines(LoadLine(fd, Head(lines)), Tail(lines))

GetFeedData(lines, urls) == LoadLines(EnableAll(<<>>, urls), lines)

\* ----------------------------------------------------------- update_feed
\* The entries list sorted by pub_date, reverse=True; list.sort is stable,
\* also under reverse.  An entry goes after every entry that is not older.
RECURSIVE InsertDescUnstable(_, _)
InsertDescUnstable(sorted, e) ==
    IF sorted = <<>> THEN <<e>>
    ELSE IF ~Later(Head(sorted).pub_date, e.pub_date)
         THEN <<e>> \o sorted
         ELSE <<Head(sorted)>> \o InsertDescUnstable(Tail(sorted), e)

RECURSIVE InsertDesc(_, _)
InsertDesc(sorted, e) ==
    IF sorted = <<>> THEN <<e>>
    ELSE IF Later(e.pub_date, Head(sorted).pub_date)
         THEN <<e>> \o sorted
         ELSE <<Head(sorted)>> \o InsertDesc(Tail(sorted), e)

RECURSIVE SortDesc(_, _)
SortDesc(done, rest) ==
    IF rest = <<>> THEN done
    ELSE SortDesc(InsertDesc(done, Head(rest)), Tail(rest))

\* The same test with >= for >.
IsNewOrSame(watermark, pub_date) ==
    watermark = None \/ ~Later(watermark[1], pub_date)

\* The test of line 130: the entry is newer than the feed's watermark.
IsNew(watermark, pub_date) ==
    watermark = None \/ Later(pub_date, watermark[1])

\* Lines 127-128: published_parsed is a UTC time tuple.
PubDate(entry) == Datetime(entry.published_parsed[1], 0)

\* Lines 131-134.
AsEntry(entry) ==
    Entry(IF entry.link = NoKey THEN URL_MISSING ELSE entry.link,
          IF entry.title = NoKey THEN TITLE_MISSING ELSE entry.title,
          PubDate(entry))

\* The same without the test of line 136.
NewestLast(newest_pub_date, pub_date) == Some(pub_date)

\* Lines 136-137.
Newest(newest_pub_date, pub_date) ==
    IF newest_pub_date = None \/ Later(pub_date, newest_pub_date[1])
    THEN Some(pub_date) ELSE newest_pub_date

\* The same loop with break for the continue of line 125.
RECURSIVE ScanEntriesBreak(_, _, _)
ScanEntriesBreak(watermark, raw, acc) ==
    IF raw = <<>> THEN acc
    ELSE IF Head(raw).published_parsed = None THEN acc
    ELSE IF IsNew(watermark, PubDate(Head(raw)))
    THEN ScanEntriesBreak(watermark, Tail(raw),
            [entries |-> Append(acc.entries, AsEntry(Head(raw))),
             newest_pub_date |-> Newest(acc.newest_pub_date, PubDate(Head(raw)))])
    ELSE ScanEntriesBreak(watermark, Tail(raw), acc)

\* The loop of lines 123-137 over data.entries; acc carries feed.entries
\* and the local newest_pub_date.
RECURSIVE ScanEntries(_, _, _)
ScanEntries(watermark, raw, acc) ==
    IF raw = <<>> THEN acc
    ELSE IF Head(raw).published_parsed = None
    THEN ScanEntries(watermark, Tail(raw), acc)
    ELSE IF IsNew(watermark, PubDate(Head(raw)))
    THEN ScanEntries(watermark, Tail(raw),
            [entries |-> Append(acc.entries, AsEntry(Head(raw))),
             newest_pub_date |-> Newest(acc.newest_pub_date, PubDate(Head(raw)))])
    ELSE ScanEntries(watermark, Tail(raw), acc)

\* update_feed with the bozo test after the title is taken.
UpdateFeedTitleFirst(feed, data) ==
    IF data.bozo
    THEN [feed EXCEPT !.retrieval_failed = TRUE,
                      !.title = IF data.title = NoKey THEN feed.title ELSE data.title]
    ELSE LET scan == ScanEntries(feed.newest_retrieved_date, data.entries,
                        [entries |-> feed.entries,
                         newest_pub_date |-> feed.newest_retrieved_date])
         IN [feed EXCEPT
               !.title = IF data.title = NoKey THEN feed.title ELSE data.title,
               !.entries = SortDesc(<<>>, scan.entries),
               !.newest_retrieved_date = scan.newest_pub_date]

UpdateFeed(feed, data) ==
    IF data.bozo THEN [feed EXCEPT !.retrieval_failed = TRUE]
    ELSE LET scan == ScanEntries(feed.newest_retrieved_date, data.entries,
                        [entries |-> feed.entries,
                         newest_pub_date |-> feed.newest_retrieved_date])
         IN [feed EXCEPT
               !.title = IF data.title = NoKey THEN feed.title ELSE data.title,
               !.entries = SortDesc(<<>>, scan.entries),
               !.newest_retrieved_date = scan.newest_pub_date]

\* -------------------------------------------------------- save_feed_data
SaveLine(feed) ==
    IF feed.newest_retrieved_date # None
    THEN Line(feed.url, Strftime(feed.newest_retrieved_date[1]))
    ELSE Line(feed.url, NoStamp)

\* The lines written last feed first.
SaveFeedDataReversed(fd) == [k \in 1..Len(fd) |-> SaveLine(fd[Len(fd) + 1 - k])]

SaveFeedData(fd) == [k \in 1..Len(fd) |-> SaveLine(fd[k])]

\* ----------------------------------------------------------------- main
\* What the loop of lines 176-198 prints: a block per enabled feed with
\* entries, then the feeds without, under one header.
\* get_info with the failure shown whether or not there is a title.
FeedInfoMarking(feed) ==
    IF feed.title # NoTitle
    THEN [kind |-> "feed", text |-> feed.title, url |-> feed.url,
          failed_msg |-> feed.retrieval_failed, date |-> None]
    ELSE [kind |-> "feed", text |-> feed.url, url |-> NoKey,
          failed_msg |-> feed.retrieval_failed, date |-> None]

FeedInfo(feed) ==
    IF feed.title # NoTitle
    THEN [kind |-> "feed", text |-> feed.title, url |-> feed.url,
          failed_msg |-> feed.retrieval_failed, date |-> None]
    ELSE [kind |-> "feed", text |-> feed.url, url |-> NoKey,
          failed_msg |-> FALSE, date |-> None]

EntryInfo(entry) ==
    [kind |-> "entry", text |-> entry.title, url |-> entry.url,
     failed_msg |-> FALSE, date |-> Some(entry.pub_date)]

OutLine(kind) ==
    [kind |-> kind, text |-> "", url |-> NoKey, failed_msg |-> FALSE, date |-> None]

RECURSIVE EntryInfos(_)
EntryInfos(entries) ==
    IF entries = <<>> THEN <<>>
    ELSE <<EntryInfo(Head(entries))>> \o EntryInfos(Tail(entries))

RECURSIVE Blocks(_)
Blocks(fd) ==
    IF fd = <<>> THEN <<>>
    ELSE IF ~Head(fd).is_enabled \/ Len(Head(fd).entries) = 0
         THEN Blocks(Tail(fd))
         ELSE <<FeedInfo(Head(fd))>> \o EntryInfos(Head(fd).entries)
              \o <<OutLine("blank")>> \o Blocks(Tail(fd))

\* The feeds without entries, enabled or not.
RECURSIVE WithoutNewAll(_)
WithoutNewAll(fd) ==
    IF fd = <<>> THEN <<>>
    ELSE IF Len(Head(fd).entries) = 0
         THEN <<Head(fd)>> \o WithoutNewAll(Tail(fd))
         ELSE WithoutNewAll(Tail(fd))

RECURSIVE WithoutNew(_)
WithoutNew(fd) ==
    IF fd = <<>> THEN <<>>
    ELSE IF Head(fd).is_enabled /\ Len(Head(fd).entries) = 0
         THEN <<Head(fd)>> \o WithoutNew(Tail(fd))
         ELSE WithoutNew(Tail(fd))

RECURSIVE FeedInfos(_)
FeedInfos(feeds) ==
    IF feeds = <<>> THEN <<>>
    ELSE <<FeedInfo(Head(feeds))>> \o FeedInfos(Tail(feeds))

Report(fd) ==
    Blocks(fd) \o
    (IF Len(WithoutNew(fd)) > 0
     THEN <<OutLine("header")>> \o FeedInfos(WithoutNew(fd))
     ELSE <<>>)

\* ------------------------------------------------------- input domains
RECURSIVE SeqsUpTo(_, _)
SeqsUpTo(S, n) ==
    IF n = 0 THEN {<<>>}
    ELSE LET shorter == SeqsUpTo(S, n - 1)
         IN shorter \cup {Append(q, x) : q \in {r \in shorter : Len(r) = n - 1}, x \in S}

\* Contents of ~/.plaintextfeeds naming the urls U.
FeedFilesOf(U) == SeqsUpTo(U \cup {Blank, Comment}, MaxFeedLines)
FeedFiles == FeedFilesOf(Urls)

\* Timestamp fields of a data file the user wrote: none, unparsable, a
\* zero-padded year below 1000, a time at another UTC offset.
HandStamps ==
    {NoStamp, Junk,
     [kind |-> "iso4", ts |-> 1, off |-> 0],
     [kind |-> "iso4", ts |-> MaxDate, off |-> 1]}

\* Contents of ~/.plaintextfeeds.data with the timestamp fields S.
DataFilesOf(U, S) ==
    SeqsUpTo({Line(u, s) : u \in U, s \in S} \cup {Line(Blank, NoStamp)}, MaxDataLines)
DataFiles == DataFilesOf(Urls, HandStamps)

\* What feedparser.parse can return.
RawEntries ==
    {[link |-> id[1], title |-> id[2], published_parsed |-> p] :
        id \in {<<"l1", NoKey>>, <<NoKey, "t1">>},
        p \in {None} \cup {Some(t) : t \in 1..MaxDate}}

Parsed(n) ==
    {[bozo |-> FALSE, title |-> t, entries |-> es] :
        t \in {NoKey, "T"}, es \in SeqsUpTo(RawEntries, n)}

\* A bozo result can still carry whatever was parsed.
Bozo(n) == {[d EXCEPT !.bozo = TRUE] : d \in Parsed(n)}

\* In whole runs a bozo result carries at most a title.
RunParsed == Parsed(MaxRunEntries)
RunBozo == Bozo(0)
AnyParsed == Parsed(MaxEntries)
AnyBozo == Bozo(MaxEntries)

\* ---------------------------------------------------------------- state
VARIABLES
    feed_file,      \* ~/.plaintextfeeds: its lines
    data_file,      \* ~/.plaintextfeeds.data: its lines
    pc,             \* where main is: idle, polling, saved, done; interrupted, crashed
    feed_data,      \* main's feed_data
    i,              \* position of the loop of lines 168-170 in feed_data
    before,         \* data_file as the run found it
    loaded,         \* feed_data as get_feed_data returned it
    polled,         \* urls update_feed was called for, in order
    fetched,        \* what feedparser.parse returned for each of them
    writes,         \* writes of data_file in this run
    stdout,         \* what the run printed
    written,        \* runs that have written data_file so far, 2 for more
    watch,          \* one entry of one feed, followed through the runs
    seen            \* runs that printed the watched entry so far, 2 for more

vars == <<feed_file, data_file, pc, feed_data, i, before, loaded, polled,
          fetched, writes, stdout, written, watch, seen>>

files == <<feed_file, data_file>>
history == <<before, loaded, polled, fetched, writes, written>>

NoWatch == [url |-> Blank, entry |-> Entry(NoKey, NoKey, Datetime(0, 0))]

\* No process runs and none has run.
NotStarted ==
    /\ pc = "idle"
    /\ feed_data = <<>>
    /\ i = 1
    /\ before = <<>>
    /\ loaded = <<>>
    /\ polled = <<>>
    /\ fetched = <<>>
    /\ writes = 0
    /\ stdout = <<>>
    /\ written = 0
    /\ seen = 0

\* Any URL list, any data file the user may have put there.
Init ==
    /\ feed_file \in FeedFiles
    /\ data_file \in DataFiles
    /\ watch = NoWatch
    /\ NotStarted

\* Lines 160-164: nothing configured, exit before the data file is read.
ExitEmpty ==
    /\ pc = "idle"
    /\ Len(GetUrlList(feed_file)) = 0
    /\ pc' = "done"
    /\ stdout' = <<OutLine("No URLs listed")>>
    /\ before' = data_file
    /\ UNCHANGED <<files, feed_data, i, loaded, polled, fetched, writes, written,
                   watch, seen>>

\* Lines 160-166.
Load ==
    /\ pc = "idle"
    /\ Len(GetUrlList(feed_file)) # 0
    /\ feed_data' = GetFeedData(data_file, GetUrlList(feed_file))
    /\ loaded' = feed_data'
    /\ before' = data_file
    /\ i' = 1
    /\ pc' = "polling"
    /\ UNCHANGED <<files, polled, fetched, writes, stdout, written, watch, seen>>

\* Lines 168-170, one turn of the loop on a feed that is not enabled.
Skip ==
    /\ pc = "polling"
    /\ i <= Len(feed_data)
    /\ ~feed_data[i].is_enabled
    /\ i' = i + 1
    /\ UNCHANGED <<files, pc, feed_data, history, stdout, watch, seen>>

\* The same loop leaving at the first feed that failed.
NextFeedAbort(fd, k, d) == IF d.bozo THEN Len(fd) + 1 ELSE k + 1

\* Where the loop goes after update_feed returned: to the next feed.
NextFeed(fd, k, d) == k + 1

\* The loop stands at an enabled feed.
AtEnabled ==
    /\ pc = "polling"
    /\ i <= Len(feed_data)
    /\ feed_data[i].is_enabled

\* One turn of the loop with the data file written at once.
PollSaving(d) ==
    /\ feed_data' = [feed_data EXCEPT ![i] = UpdateFeed(feed_data[i], d)]
    /\ polled' = Append(polled, feed_data[i].url)
    /\ fetched' = Append(fetched, d)
    /\ i' = NextFeed(feed_data, i, d)
    /\ data_file' = SaveFeedData(feed_data')
    /\ writes' = writes + 1
    /\ UNCHANGED <<feed_file, pc, before, loaded, written, stdout, watch, seen>>

\* One turn of the loop of lines 168-170 on an enabled feed.
Poll(d) ==
    /\ feed_data' = [feed_data EXCEPT ![i] = UpdateFeed(feed_data[i], d)]
    /\ polled' = Append(polled, feed_data[i].url)
    /\ fetched' = Append(fetched, d)
    /\ i' = NextFeed(feed_data, i, d)
    /\ UNCHANGED <<files, pc, before, loaded, writes, written, stdout, watch, seen>>

\* One turn of the loop: update_feed on a feed that parsed.
PollOk == AtEnabled /\ \E d \in RunParsed : Poll(d)

\* One turn of the loop: update_feed on a feed feedparser flagged bozo.
PollFail == AtEnabled /\ \E d \in RunBozo : Poll(d)

\* Line 172.
Save ==
    /\ pc = "polling"
    /\ i > Len(feed_data)
    /\ data_file' = SaveFeedData(feed_data)
    /\ writes' = writes + 1
    /\ written' = IF written < 2 THEN written + 1 ELSE 2
    /\ pc' = "saved"
    /\ UNCHANGED <<feed_file, feed_data, i, before, loaded, polled, fetched,
                   stdout, watch, seen>>

\* The run prints the watched entry.
Printed(fd, w) ==
    \E k \in 1..Len(fd) :
        /\ fd[k].url = w.url
        /\ fd[k].is_enabled
        /\ \E j \in 1..Len(fd[k].entries) : fd[k].entries[j] = w.entry

\* Lines 174-198.
Output ==
    /\ pc = "saved"
    /\ stdout' = Report(feed_data)
    /\ seen' = IF Printed(feed_data, watch) /\ seen < 2 THEN seen + 1 ELSE seen
    /\ pc' = "done"
    /\ UNCHANGED <<files, feed_data, i, history, watch>>

\* The process is gone.
Exit ==
    /\ pc = "done"
    /\ pc' = "idle"
    /\ feed_data' = <<>>
    /\ i' = 1
    /\ before' = <<>>
    /\ loaded' = <<>>
    /\ polled' = <<>>
    /\ fetched' = <<>>
    /\ writes' = 0
    /\ stdout' = <<>>
    /\ UNCHANGED <<files, written, watch, seen>>

\* Between two runs the user edits the URL list.
EditFeedFile ==
    /\ pc = "idle"
    /\ feed_file' \in FeedFiles \ {feed_file}
    /\ UNCHANGED <<data_file, pc, feed_data, i, history, stdout, watch, seen>>

Next ==
    \/ ExitEmpty \/ Load \/ Skip \/ PollOk \/ PollFail \/ Save \/ Output
    \/ Exit \/ EditFeedFile

Spec == Init /\ [][Next]_vars

\* ---- runs from a first install on, one entry followed through the runs
WatchedEntries ==
    {[url |-> u, entry |-> Entry(URL_MISSING, "t1", Datetime(t, 0))] :
        u \in Urls, t \in 1..MaxDate}

InitWatch ==
    /\ feed_file \in FeedFiles
    /\ data_file = <<>>
    /\ watch \in WatchedEntries
    /\ NotStarted

SpecWatch == InitWatch /\ [][Next]_vars

\* ---- one run among three urls, on a data file the user or an earlier
\* run wrote
ManyUrls == Urls \cup {"c"}

InitMany ==
    /\ feed_file \in FeedFilesOf(ManyUrls)
    /\ data_file \in DataFilesOf(ManyUrls, HandStamps \cup {Strftime(Datetime(1, 0))})
    /\ watch = NoWatch
    /\ NotStarted

NextMany == ExitEmpty \/ Load \/ Skip \/ PollOk \/ PollFail \/ Save \/ Output

SpecMany == InitMany /\ [][NextMany]_vars

\* ---- update_feed alone, on a feed as get_feed_data makes it
Watermarks ==
    {None} \cup {Some(Datetime(t, o)) : t \in 1..MaxDate, o \in Offsets}

InitEngine ==
    /\ feed_file = <<"a">>
    /\ data_file = <<>>
    /\ watch = NoWatch
    /\ \E w \in Watermarks :
          feed_data = <<[Feed("a", TRUE) EXCEPT !.newest_retrieved_date = w]>>
    /\ loaded = feed_data
    /\ pc = "polling"
    /\ i = 1
    /\ before = <<>>
    /\ polled = <<>>
    /\ fetched = <<>>
    /\ writes = 0
    /\ stdout = <<>>
    /\ written = 0
    /\ seen = 0

UpdateOk == AtEnabled /\ \E d \in AnyParsed : Poll(d)

UpdateFail == AtEnabled /\ \E d \in AnyBozo : Poll(d)

NextEngine == UpdateOk \/ UpdateFail

SpecEngine == InitEngine /\ [][NextEngine]_vars

\* ---- main to line 172 at once, given what each url returns
\* The loop of lines 168-170; net maps a url to what feedparser.parse
\* returns for it.
RECURSIVE PollAll(_, _, _)
PollAll(fd, net, k) ==
    IF k > Len(fd) THEN fd
    ELSE IF ~fd[k].is_enabled THEN PollAll(fd, net, k + 1)
    ELSE PollAll([fd EXCEPT ![k] = UpdateFeed(fd[k], net[fd[k].url])], net,
                 NextFeed(fd, k, net[fd[k].url]))

RunMain(feed_lines, data_lines, net) ==
    IF Len(GetUrlList(feed_lines)) = 0
    THEN [ran |-> FALSE, feed_data |-> <<>>, data_file |-> data_lines]
    ELSE LET fd == PollAll(GetFeedData(data_lines, GetUrlList(feed_lines)), net, 1)
         IN [ran |-> TRUE, feed_data |-> fd, data_file |-> SaveFeedData(fd)]

\* ================================================================ claims
\* The feed the latest update_feed worked on, before and after.
LastPolled == IndexOf(feed_data, polled[Len(polled)], 1)
Was == loaded[LastPolled]
Now == feed_data[LastPolled]
Data == fetched[Len(fetched)]
Updated == fetched # <<>> /\ ~Data.bozo
Failed == fetched # <<>> /\ Data.bozo
Raw == Data.entries
Range(q) == {q[n] : n \in 1..Len(q)}
Dated(entry) == entry.published_parsed # None

\* Published strictly after the watermark the run started with.
Qualifies(entry) ==
    /\ Dated(entry)
    /\ \/ Was.newest_retrieved_date = None
       \/ entry.published_parsed[1] > Instant(Was.newest_retrieved_date[1])

\* C2: after a successful update_feed, an item of the parsed list is in
\* feed.entries if and only if it has a published time strictly greater than
\* the watermark the feed had when the run started (any dated item, when
\* there was none), wherever it stands in the list.
C2_NewIffAfterWatermark ==
    Updated =>
        /\ \A n \in 1..Len(Raw) :
              Qualifies(Raw[n]) <=> (Dated(Raw[n]) /\ AsEntry(Raw[n]) \in Range(Now.entries))
        /\ \A e \in Range(Now.entries) :
              \E n \in 1..Len(Raw) : Qualifies(Raw[n]) /\ AsEntry(Raw[n]) = e

\* An old item stands before a new one, and one stands at the watermark.
C2_Witness ==
    /\ Updated
    /\ Was.newest_retrieved_date # None
    /\ Len(Raw) >= 2
    /\ ~Qualifies(Raw[1]) /\ Dated(Raw[1])
    /\ Raw[1].published_parsed[1] = Instant(Was.newest_retrieved_date[1])
    /\ Qualifies(Raw[2])
    /\ Len(Now.entries) = 1

\* C7: after a successful update_feed the watermark is the later of the
\* original watermark and the published times of the items in feed.entries;
\* with no item in feed.entries it is the original one, absent if absent.
C7_WatermarkIsMax ==
    Updated =>
        IF Now.entries = <<>>
        THEN Now.newest_retrieved_date = Was.newest_retrieved_date
        ELSE /\ Now.newest_retrieved_date # None
             /\ \A e \in Range(Now.entries) :
                   Instant(e.pub_date) <= Instant(Now.newest_retrieved_date[1])
             /\ Was.newest_retrieved_date # None =>
                   Instant(Was.newest_retrieved_date[1])
                       <= Instant(Now.newest_retrieved_date[1])
             /\ \/ Now.newest_retrieved_date = Was.newest_retrieved_date
                \/ \E e \in Range(Now.entries) :
                       Now.newest_retrieved_date = Some(e.pub_date)

\* The newest of several new items is not the last of the list.
C7_Witness ==
    /\ Updated
    /\ Len(Now.entries) >= 2
    /\ Was.newest_retrieved_date # None
    /\ Qualifies(Raw[Len(Raw)])
    /\ Raw[Len(Raw)].published_parsed[1] < Instant(Now.newest_retrieved_date[1])

\* The new items in the order of the parsed list.
NewInOrder ==
    LET new == SelectSeq(Raw, Qualifies)
    IN [n \in 1..Len(new) |-> AsEntry(new[n])]

\* C8: after a successful update_feed, feed.entries is ordered by published
\* time, latest first, and the items of one published time stand in the order
\* they have in the parsed list.
C8_SortedStable ==
    Updated =>
        /\ \A m, n \in 1..Len(Now.entries) :
              m < n => Instant(Now.entries[m].pub_date) >= Instant(Now.entries[n].pub_date)
        /\ \A t \in 1..MaxDate :
              SelectSeq(Now.entries, LAMBDA e : e.pub_date.ts = t)
                  = SelectSeq(NewInOrder, LAMBDA e : e.pub_date.ts = t)

\* Two different items of one published time after an earlier one.
C8_Witness ==
    /\ Updated
    /\ Len(Now.entries) = 3
    /\ Now.entries[1].pub_date = Now.entries[2].pub_date
    /\ Now.entries[1] # Now.entries[2]
    /\ Now.entries # NewInOrder

Urlset(fd) == {fd[k].url : k \in 1..Len(fd)}
FailedUrls == {feed_data[k].url : k \in {n \in 1..Len(feed_data) : feed_data[n].retrieval_failed}}

RECURSIVE EnabledUrls(_)
EnabledUrls(fd) ==
    IF fd = <<>> THEN <<>>
    ELSE IF Head(fd).is_enabled THEN <<Head(fd).url>> \o EnabledUrls(Tail(fd))
         ELSE EnabledUrls(Tail(fd))

\* The time a timestamp text stands for, whether or not strptime takes it.
Denoted(stamp) ==
    IF stamp.kind \in {"iso4", "short"} THEN Some(Datetime(stamp.ts, stamp.off))
    ELSE None

\* Watermark w2 is not before watermark w1; an absent one is before all.
NotBefore(w1, w2) ==
    w1 = None \/ (w2 # None /\ Instant(w2[1]) >= Instant(w1[1]))

LinesOf(lines, u) == SelectSeq(lines, LAMBDA l : l.url = u)

\* The watermark the data file holds for a url: that of its last line.
Persisted(lines, u) ==
    IF LinesOf(lines, u) = <<>> THEN None
    ELSE Denoted(LinesOf(lines, u)[Len(LinesOf(lines, u))].stamp)

\* C4: when the fetch of an enabled feed fails, its retrieval_failed is
\* true and the rest of it is as it was loaded; the loop goes on with the
\* next feed, every enabled feed is polled and the data file is written.
C4_FailureContained ==
    /\ \A k \in 1..Len(feed_data) :
          feed_data[k].url \in FailedUrls =>
              feed_data[k] = [loaded[k] EXCEPT !.retrieval_failed = TRUE]
    /\ FailedUrls # {} =>
          \A k \in 1..Len(feed_data) :
              (k < i /\ feed_data[k].is_enabled) => feed_data[k].url \in Range(polled)
    /\ (pc \in {"saved", "done"} /\ FailedUrls # {}) =>
          /\ polled = EnabledUrls(loaded)
          /\ writes = 1
          /\ data_file = SaveFeedData(feed_data)

\* The first of two enabled feeds failed with a title in what was parsed,
\* the second brought a new entry, and the file is written.
C4_Witness ==
    /\ pc = "saved"
    /\ Len(polled) = 2
    /\ fetched[1].bozo /\ fetched[1].title # NoKey
    /\ loaded[1].newest_retrieved_date # None
    /\ feed_data[1].retrieval_failed
    /\ ~fetched[2].bozo
    /\ Len(feed_data[2].entries) = 1
    /\ data_file # before

\* C1: the watermark a run persists for a url is not before the one the
\* run before it persisted.
C1_WatermarkNeverRegresses ==
    (pc = "saved" /\ written = 2) =>
        \A u \in Urlset(loaded) :
            NotBefore(Persisted(before, u), Persisted(data_file, u))

\* The same for the watermarks whose year has four digits.
C1_FourDigitYears ==
    (pc = "saved" /\ written = 2) =>
        \A u \in Urlset(loaded) :
            (\A l \in Range(LinesOf(before, u)) : l.stamp.kind # "short") =>
                NotBefore(Persisted(before, u), Persisted(data_file, u))

\* C3: an entry a run printed as new is printed by no later run.
C3_NeverReportedTwice == seen <= 1

\* The same for the entries whose year has four digits.
C3_FourDigitYears == ShortYear(watch.entry.pub_date.ts) \/ seen <= 1

\* C6: when the fetch of a feed fails, the line the run writes for it is
\* the line the data file had for it (here: a file the run before wrote).
C6_FailedLineUnchanged ==
    (pc = "saved" /\ written = 2) =>
        \A u \in FailedUrls :
            LinesOf(before, u) # <<>> => LinesOf(data_file, u) = LinesOf(before, u)

\* The same for the lines whose year has four digits.
C6_FourDigitYears ==
    (pc = "saved" /\ written = 2) =>
        \A u \in FailedUrls :
            (/\ LinesOf(before, u) # <<>>
             /\ \A l \in Range(LinesOf(before, u)) : l.stamp.kind # "short")
                => LinesOf(data_file, u) = LinesOf(before, u)

\* C10: get_feed_data returns one feed per url of the URL list and of the
\* data file; a listed url is enabled, any other is not; each carries the
\* watermark the data file holds for it, none if it holds none; the run
\* writes a disabled feed's watermark back as it was.
C10_Merge ==
    pc \in {"polling", "saved"} =>
        /\ Urlset(loaded) = Range(GetUrlList(feed_file))
                              \cup ({before[m].url : m \in 1..Len(before)} \ {Blank})
        /\ \A k, n \in 1..Len(loaded) : loaded[k].url = loaded[n].url => k = n
        /\ \A k \in 1..Len(loaded) :
              /\ loaded[k].is_enabled <=> loaded[k].url \in Range(GetUrlList(feed_file))
              /\ loaded[k].newest_retrieved_date = Persisted(before, loaded[k].url)
              /\ (pc = "saved" /\ ~loaded[k].is_enabled) =>
                    Persisted(data_file, loaded[k].url) = Persisted(before, loaded[k].url)

\* The same for the data files without a year of fewer than four digits.
C10_FourDigitYears ==
    (\A m \in 1..Len(before) : before[m].stamp.kind # "short") => C10_Merge

\* ------------------------------------------------------- a run's twin
\* The twin is the same run on the same inputs, but for one url that is
\* neither in the URL list nor in the data file.
RECURSIVE WithoutUrl(_, _)
WithoutUrl(lines, a) ==
    IF lines = <<>> THEN <<>>
    ELSE IF Head(lines) = a THEN WithoutUrl(Tail(lines), a)
         ELSE <<Head(lines)>> \o WithoutUrl(Tail(lines), a)

WithoutLinesOf(lines, a) == SelectSeq(lines, LAMBDA l : l.url # a)

\* What each polled url returned in this run.
Net == [u \in Range(polled) |-> fetched[CHOOSE n \in 1..Len(polled) : polled[n] = u]]

TwinUrls(a) == GetUrlList(WithoutUrl(feed_file, a))
TwinOf(a) == RunMain(WithoutUrl(feed_file, a), WithoutLinesOf(before, a), Net)

\* Feed b and its lines come out of the run as they come out of the twin
\* without a.
SameAsTwin(a, b) ==
    /\ Range(TwinUrls(a)) \subseteq Range(polled)
    /\ Has(TwinOf(a).feed_data, b)
    /\ TwinOf(a).feed_data[IndexOf(TwinOf(a).feed_data, b, 1)]
          = feed_data[IndexOf(feed_data, b, 1)]
    /\ LinesOf(TwinOf(a).data_file, b) = LinesOf(data_file, b)

\* C5 as claimed: when the fetch of a fails, every other feed b and its
\* persisted line are as in the run in which a is not configured and not in
\* the data file.
C5_Isolation ==
    pc = "saved" =>
        \A a \in FailedUrls : \A b \in Urlset(feed_data) \ {a} : SameAsTwin(a, b)

\* C5, amended: the same when some url other than a is configured.  (With
\* none, the run without a stops at line 164 and leaves the data file as it
\* is, while the run with a rewrites the line of b.)
C5_IsolationWhenOthersListed ==
    pc = "saved" =>
        \A a \in FailedUrls :
            TwinUrls(a) # <<>> =>
                /\ \A b \in Urlset(feed_data) \ {a} : SameAsTwin(a, b)
                /\ Urlset(TwinOf(a).feed_data) = Urlset(feed_data) \ {a}

\* a failed before an enabled feed that brought a new entry, beside a
\* disabled feed with a watermark.
C5_Witness ==
    /\ pc = "saved"
    /\ Len(polled) = 2
    /\ feed_data[1].retrieval_failed
    /\ Len(feed_data[2].entries) = 1
    /\ Len(feed_data) = 3
    /\ ~feed_data[3].is_enabled
    /\ feed_data[3].newest_retrieved_date # None
    /\ LinesOf(before, feed_data[1].url) # <<>>

\* ------------------------------------------------ persistence, round trip
\* The data file read back right after it was written.
Reloaded == GetFeedData(data_file, GetUrlList(feed_file))

\* C11: the data file save_feed_data wrote, read back by get_feed_data,
\* gives every feed the watermark it was saved with, and none to a feed
\* saved without one.
C11_RoundTrip ==
    pc = "saved" =>
        /\ Len(Reloaded) = Len(feed_data)
        /\ \A k \in 1..Len(feed_data) :
              /\ Reloaded[k].url = feed_data[k].url
              /\ Reloaded[k].newest_retrieved_date = feed_data[k].newest_retrieved_date

\* The same for the watermarks whose year has four digits.
C11_FourDigitYears ==
    pc = "saved" =>
        /\ Len(Reloaded) = Len(feed_data)
        /\ \A k \in 1..Len(feed_data) :
              /\ Reloaded[k].url = feed_data[k].url
              /\ (\/ feed_data[k].newest_retrieved_date = None
                  \/ ~ShortYear(feed_data[k].newest_retrieved_date[1].ts))
                    => Reloaded[k].newest_retrieved_date
                          = feed_data[k].newest_retrieved_date

\* ------------------------------------------------- a malformed data line
\* The line names a url and its timestamp field is one strptime rejects.
Malformed(line) == line.url # Blank /\ line.stamp.kind \in {"junk", "short"}

\* The data file with the timestamp field of line m taken away.
Bare(lines, m) == [lines EXCEPT ![m].stamp = NoStamp]

\* C12 as claimed: get_feed_data gets through a data file with a malformed
\* line; the url of that line is loaded without a watermark, and all is
\* loaded as if the line had no timestamp field.
C12_MalformedLine ==
    pc = "polling" =>
        \A m \in 1..Len(before) :
            Malformed(before[m]) =>
                /\ loaded = GetFeedData(Bare(before, m), GetUrlList(feed_file))
                /\ Has(loaded, before[m].url)
                /\ loaded[IndexOf(loaded, before[m].url, 1)].newest_retrieved_date = None

\* C12, amended: the url of the malformed line is loaded without a
\* watermark when no later line names the same url (the last line of a url
\* decides); in any case all is loaded as if the line had no timestamp
\* field.
C12_MalformedLastLine ==
    pc = "polling" =>
        \A m \in 1..Len(before) :
            Malformed(before[m]) =>
                /\ loaded = GetFeedData(Bare(before, m), GetUrlList(feed_file))
                /\ Has(loaded, before[m].url)
                /\ (\A n \in (m + 1)..Len(before) : before[n].url # before[m].url)
                      => loaded[IndexOf(loaded, before[m].url, 1)].newest_retrieved_date
                            = None

\* A malformed line of one url before a well-formed line of another, which
\* is loaded with its watermark.
C12_Witness ==
    /\ pc = "polling"
    /\ Len(before) = 2
    /\ before[1].stamp = Junk
    /\ before[1].url # Blank
    /\ before[2].url \notin {Blank, before[1].url}
    /\ before[2].stamp.kind = "iso4"
    /\ Len(loaded) = 2
    /\ \E k \in 1..2 : /\ loaded[k].url = before[1].url
                       /\ loaded[k].newest_retrieved_date = None
    /\ \E k \in 1..2 : /\ loaded[k].url = before[2].url
                       /\ loaded[k].newest_retrieved_date = Strptime(before[2].stamp)

\* --------------------------------------------------- the write of a run
\* C13: a run that has urls to poll writes the data file once, after
\* update_feed has returned for every enabled feed, whether or not any of
\* them failed, and prints nothing before that write.
C13_WrittenOnceAfterPolls ==
    /\ pc = "polling" => (writes = 0 /\ stdout = <<>> /\ data_file = before)
    /\ pc = "saved" => stdout = <<>>
    /\ (pc \in {"saved", "done"} /\ GetUrlList(feed_file) # <<>>) =>
          /\ writes = 1
          /\ polled = EnabledUrls(loaded)
          /\ Len(fetched) = Len(polled)
          /\ data_file = SaveFeedData(feed_data)

\* Both enabled feeds failed; the file is written all the same and the
\* report comes after.
C13_Witness ==
    /\ pc = "done"
    /\ Len(polled) = 2
    /\ fetched[1].bozo /\ fetched[2].bozo
    /\ writes = 1
    /\ before = <<>>
    /\ Len(data_file) = 2
    /\ stdout # <<>>

\* Urls a data file names.
UrlsIn(lines) == {lines[m].url : m \in 1..Len(lines)} \ {Blank}

\* C14: the data file a run writes holds one line for every url of the
\* data file it found and of the URL list, and for every url a watermark
\* that is not before the one the file held; whichever fetches failed.
C14_NoDataLoss ==
    pc = "saved" =>
        \A u \in UrlsIn(before) \cup Range(GetUrlList(feed_file)) :
            /\ Len(LinesOf(data_file, u)) = 1
            /\ NotBefore(Persisted(before, u), Persisted(data_file, u))

\* The same for the data files without a year of fewer than four digits.
C14_FourDigitYears ==
    pc = "saved" =>
        \A u \in UrlsIn(before) \cup Range(GetUrlList(feed_file)) :
            /\ Len(LinesOf(data_file, u)) = 1
            /\ (\A l \in Range(LinesOf(before, u)) : l.stamp.kind # "short")
                  => NotBefore(Persisted(before, u), Persisted(data_file, u))

\* ------------------------------------------------------------ the report
\* ---- one run whose feeds return up to two entries, beside a url that is
\* only in the data file
ReportParsed ==
    {d \in Parsed(MaxReportEntries) : \A n \in 1..Len(d.entries) : d.entries[n].link # NoKey}

InitReport ==
    /\ feed_file \in FeedFiles
    /\ data_file \in {<<>>, <<Line("c", Strftime(Datetime(MaxDate, 0)))>>}
    /\ watch = NoWatch
    /\ NotStarted

ReportOk == AtEnabled /\ \E d \in ReportParsed : Poll(d)

NextReport == ExitEmpty \/ Load \/ Skip \/ ReportOk \/ PollFail \/ Save \/ Output

SpecReport == InitReport /\ [][NextReport]_vars

\* The urls of a list, each at its first occurrence.
RECURSIVE Dedup(_)
Dedup(q) ==
    IF q = <<>> THEN <<>>
    ELSE <<Head(q)>> \o Dedup(SelectSeq(Tail(q), LAMBDA x : x # Head(q)))

Listed == Dedup(GetUrlList(feed_file))
FeedOf(u) == feed_data[IndexOf(feed_data, u, 1)]

\* The url of the feed a printed "Feed:" line stands for.
KeyOf(line) == IF line.url # NoKey THEN line.url ELSE line.text
Keys(lines) == [n \in 1..Len(lines) |-> KeyOf(lines[n])]

\* Where "Feeds without new articles:" is printed; past the end if it is not.
HeaderAt ==
    IF \E p \in 1..Len(stdout) : stdout[p].kind = "header"
    THEN CHOOSE p \in 1..Len(stdout) :
            /\ stdout[p].kind = "header"
            /\ \A q \in 1..(p - 1) : stdout[q].kind # "header"
    ELSE Len(stdout) + 1

BlockHeads ==
    SelectSeq(SubSeq(stdout, 1, HeaderAt - 1), LAMBDA l : l.kind = "feed")
Summary == SubSeq(stdout, HeaderAt + 1, Len(stdout))

\* C15: the report has a block for every listed feed with new entries, in
\* the order of the URL list, each with its entries newest first, and then
\* one list of the listed feeds without new entries; a feed that failed is
\* in that list and heads no block; a feed that is not enabled is in
\* neither.
C15_ReportPartition ==
    (pc = "done" /\ GetUrlList(feed_file) # <<>>) =>
        /\ Keys(BlockHeads) = SelectSeq(Listed, LAMBDA u : Len(FeedOf(u).entries) > 0)
        /\ Keys(Summary) = SelectSeq(Listed, LAMBDA u : Len(FeedOf(u).entries) = 0)
        /\ \A n \in 1..Len(Summary) : Summary[n].kind = "feed"
        /\ (HeaderAt <= Len(stdout)) <=> (Summary # <<>>)
        /\ \A u \in Range(Listed) :
              (u \in Range(Keys(BlockHeads))) # (u \in Range(Keys(Summary)))
        /\ \A p \in 1..(HeaderAt - 1) :
              stdout[p].kind = "feed" =>
                  LET es == FeedOf(KeyOf(stdout[p])).entries
                  IN /\ p + Len(es) + 1 < HeaderAt
                     /\ \A j \in 1..Len(es) : stdout[p + j] = EntryInfo(es[j])
                     /\ stdout[p + Len(es) + 1].kind = "blank"
                     /\ \A j \in 1..(Len(es) - 1) :
                           ~Later(es[j + 1].pub_date, es[j].pub_date)
        /\ \A q \in 1..(HeaderAt - 1) :
              stdout[q].kind # "feed" =>
                  \E p \in 1..(q - 1) :
                      /\ stdout[p].kind = "feed"
                      /\ q <= p + Len(FeedOf(KeyOf(stdout[p])).entries) + 1
        /\ \A u \in FailedUrls :
              u \in Range(Keys(Summary)) /\ u \notin Range(Keys(BlockHeads))
        /\ \A k \in 1..Len(feed_data) :
              ~feed_data[k].is_enabled =>
                  feed_data[k].url \notin Range(Keys(BlockHeads)) \cup Range(Keys(Summary))

\* A block of two entries that came oldest first, a failed feed in the
\* list after it, and a feed that is not enabled.
C15_Witness ==
    /\ pc = "done"
    /\ Len(feed_data) = 3
    /\ Len(fetched) = 2
    /\ Len(fetched[1].entries) = 2
    /\ fetched[1].entries[1].published_parsed = Some(1)
    /\ fetched[1].entries[2].published_parsed = Some(2)
    /\ Len(feed_data[1].entries) = 2
    /\ fetched[2].bozo
    /\ ~feed_data[3].is_enabled
    /\ Len(stdout) = 6

\* ------------------------------------------------- a run that is cut short
\* ---- one run that may be interrupted while it polls, or die while it
\* writes the data file
\* KeyboardInterrupt in the loop of lines 168-170: nothing catches it, main
\* is left and line 172 is not reached.  What the data file holds then:
OnInterruptSave(file, fd) == SaveFeedData(fd)

OnInterrupt(file, fd) == file

Interrupt ==
    /\ pc = "polling"
    /\ i <= Len(feed_data)
    /\ data_file' = OnInterrupt(data_file, feed_data)
    /\ pc' = "interrupted"
    /\ UNCHANGED <<feed_file, feed_data, i, history, stdout, watch, seen>>

\* A url cut short is another url.
CutUrl == "<cut>"

\* What is left of a line when the write stops inside it: the url cut
\* short, the url alone, or the url with the timestamp cut short.
Torn(line) ==
    {Line(CutUrl, NoStamp)}
        \cup (IF line.stamp.kind = "none" THEN {}
              ELSE {Line(line.url, NoStamp), Line(line.url, Junk)})

\* open(data_file, "w") empties the file and the lines go out one after
\* the other, through a buffer that is flushed by size: a process that dies
\* in between leaves the first lines, the last of them whole or not.
TornFiles(new) ==
    {SubSeq(new, 1, n) : n \in 0..Len(new)}
        \cup UNION {{Append(SubSeq(new, 1, n - 1), t) : t \in Torn(new[n])} :
                        n \in 1..Len(new)}

\* Lines 143-152, not run to the end.
CrashInSave ==
    /\ pc = "polling"
    /\ i > Len(feed_data)
    /\ data_file' \in TornFiles(SaveFeedData(feed_data))
    /\ writes' = writes + 1
    /\ pc' = "crashed"
    /\ UNCHANGED <<feed_file, feed_data, i, before, loaded, polled, fetched,
                   stdout, written, watch, seen>>

NextFaults ==
    \/ ExitEmpty \/ Load \/ Skip \/ PollOk \/ PollFail \/ Save \/ Output
    \/ Interrupt \/ CrashInSave

SpecFaults == Init /\ [][NextFaults]_vars

\* C16: after a crash during the write, the data file has at most one line
\* for a url, and that line is the line the file had for it before the run
\* or the line the run was writing for it.
C16_NoTornEntry ==
    pc = "crashed" =>
        \A u \in UrlsIn(data_file) :
            /\ Len(LinesOf(data_file, u)) <= 1
            /\ \/ LinesOf(data_file, u)[1] \in Range(LinesOf(before, u))
               \/ /\ Has(feed_data, u)
                  /\ LinesOf(data_file, u)[1] = SaveLine(FeedOf(u))

\* What does hold: the lines before the last are lines the run was writing,
\* in order, one per url; none of the old file is left.
C16_FirstLinesOfNew ==
    pc = "crashed" =>
        /\ Len(data_file) <= Len(feed_data)
        /\ \A n \in 1..(Len(data_file) - 1) : data_file[n] = SaveLine(feed_data[n])
        /\ \A u \in UrlsIn(data_file) : Len(LinesOf(data_file, u)) <= 1

\* C17: a run interrupted while it polls does not poll the feeds that are
\* left and does not write the data file, which stays as the run found it.
C17_InterruptLeavesFile ==
    pc = "interrupted" =>
        /\ data_file = before
        /\ writes = 0
        /\ stdout = <<>>
        /\ i <= Len(feed_data)
        /\ polled = EnabledUrls(SubSeq(feed_data, 1, i - 1))

\* Interrupted after the first of two enabled feeds got a new watermark,
\* with the old one in the data file.
C17_Witness ==
    /\ pc = "interrupted"
    /\ Len(polled) = 1
    /\ i = 2
    /\ Len(feed_data) = 2
    /\ feed_data[2].is_enabled
    /\ loaded[1].newest_retrieved_date # None
    /\ feed_data[1].newest_retrieved_date # loaded[1].newest_retrieved_date
    /\ Persisted(data_file, feed_data[1].url) = loaded[1].newest_retrieved_date

\* ------------------------------------------------ order and multiplicity
\* Urls of the lines of a data file, in file order.
RECURSIVE UrlsOf(_)
UrlsOf(lines) ==
    IF lines = <<>> THEN <<>>
    ELSE IF Head(lines).url = Blank THEN UrlsOf(Tail(lines))
         ELSE <<Head(lines).url>> \o UrlsOf(Tail(lines))

\* Urls of the data file that the URL list does not name.
Unlisted ==
    Dedup(SelectSeq(UrlsOf(before), LAMBDA u : u \notin Range(Listed)))

\* C18: the data file is written with one line per feed of feed_data: the
\* urls of the URL list in its order, each once at its first occurrence,
\* then the urls only the old data file names, in the order of that file.
C18_LineOrder ==
    (pc = "saved" /\ GetUrlList(feed_file) # <<>>) =>
        /\ Len(data_file) = Len(feed_data)
        /\ \A n \in 1..Len(data_file) : data_file[n] = SaveLine(feed_data[n])
        /\ UrlsOf(data_file) = Listed \o Unlisted

\* A url listed twice and two urls only the data file names.
C18_Witness ==
    /\ pc = "saved"
    /\ Len(GetUrlList(feed_file)) = 2
    /\ Len(Listed) = 1
    /\ Len(before) = 2
    /\ Len(data_file) = 3
    /\ data_file[2].url = before[1].url
    /\ data_file[3].url = before[2].url

\* C19: a feed that failed has no title, so its line in the report is the
\* line of a feed that did not fail and has no title, and "(retrieval
\* failed)" is never printed.
C19_NoFailureMarker ==
    /\ \A k \in 1..Len(feed_data) :
          feed_data[k].retrieval_failed =>
              /\ feed_data[k].title = NoTitle
              /\ feed_data[k].entries = <<>>
              /\ FeedInfo(feed_data[k])
                    = FeedInfo([feed_data[k] EXCEPT !.retrieval_failed = FALSE])
    /\ \A p \in 1..Len(stdout) : ~stdout[p].failed_msg

\* A feed failed with a title in what feedparser returned, and is printed
\* by its url.
C19_Witness ==
    /\ pc = "done"
    /\ Len(fetched) = 2
    /\ fetched[2].bozo /\ fetched[2].title # NoKey
    /\ ~fetched[1].bozo /\ fetched[1].title = NoKey /\ fetched[1].entries = <<>>
    /\ Len(stdout) = 3
    /\ stdout[3].text = polled[2]
    /\ stdout[2].text = polled[1]

\* C20: update_feed is called once for every url of the URL list, in the
\* order of the list, a url listed twice included, and never for a feed
\* that is not enabled, which stays as it was loaded.
C20_PolledOnce ==
    /\ pc = "polling" => polled = EnabledUrls(SubSeq(feed_data, 1, i - 1))
    /\ pc \in {"polling", "saved", "done"} =>
          /\ Len(polled) <= Len(Listed)
          /\ polled = SubSeq(Listed, 1, Len(polled))
          /\ \A k \in 1..Len(feed_data) :
                ~feed_data[k].is_enabled =>
                    /\ feed_data[k] = loaded[k]
                    /\ feed_data[k].url \notin Range(polled)
    /\ (pc \in {"saved", "done"} /\ GetUrlList(feed_file) # <<>>) => polled = Listed

\* A url listed twice was polled once, beside a feed that is not enabled
\* and has a watermark.
C20_Witness ==
    /\ pc = "saved"
    /\ Len(GetUrlList(feed_file)) = 2
    /\ Len(polled) = 1
    /\ Len(feed_data) = 2
    /\ ~feed_data[2].is_enabled
    /\ feed_data[2].newest_retrieved_date # None
    /\ Len(feed_data[1].entries) = 1

====
